---- MODULE Spec2Model ----
(***************************************************************************)
(* Model of the Fejvm class-file decoder: the constant pool (c_pool.rs),   *)
(* the cursor reader (buffer.rs) and the version decoder                   *)
(* (class_file_version.rs).                                                *)
(***************************************************************************)
EXTENDS FiniteSets, Integers, Sequences, TLC

VARIABLES entries, added, call, stack, rv, buffer, position, ret, version

vars == <<entries, added, call, stack, rv, buffer, position, ret, version>>

poolVars == <<entries, added, call, stack, rv>>
bufVars == <<buffer, position, ret>>

(***************************************************************************)
(* Bounds of the exploration.                                              *)
(***************************************************************************)
\* number of add calls explored from the empty pool
MaxAdds == 2

\* u16 arithmetic of `(raw_idx + 1) as u16`
U16 == 65536

(***************************************************************************)
(* ConstantPoolEntry (c_pool.rs:8-20).  A float is kept as its shortest    *)
(* decimal literal: whole part w and fraction digits f.                    *)
(***************************************************************************)
String(s) == [tag |-> "String", s |-> s]
Integer(n) == [tag |-> "Integer", n |-> n]
Float(x) == [tag |-> "Float", x |-> x]
Long(n) == [tag |-> "Long", n |-> n]
Double(x) == [tag |-> "Double", x |-> x]
ClassReference(n) == [tag |-> "ClassReference", n |-> n]
StringReference(n) == [tag |-> "StringReference", n |-> n]
FieldReference(i, j) == [tag |-> "FieldReference", i |-> i, j |-> j]
MethodReference(i, j) == [tag |-> "MethodReference", i |-> i, j |-> j]
InterfaceMethodReference(i, j) == [tag |-> "InterfaceMethodReference", i |-> i, j |-> j]
NameAndTypeDescriptor(i, j) == [tag |-> "NameAndTypeDescriptor", i |-> i, j |-> j]

Dec(w, f) == [w |-> w, f |-> f]

\* ConstantPoolPhyEntry (c_pool.rs:24-27)
Entry(e) == [phy |-> "Entry", entry |-> e]
MultiByteEntryTombstone == [phy |-> "Tombstone"]

\* InvalidConstantPoolIndexError (c_pool.rs:39-48), as the Err of get
InvalidConstantPoolIndexError(index) == [ok |-> FALSE, index |-> index]

(***************************************************************************)
(* ConstantPool::add (c_pool.rs:58-73)                                     *)
(***************************************************************************)
add_tombstone(e) == e.tag \in {"Long", "Double"}

\* add that never pushes the tombstone
add_no_tombstone(pool, e) == Append(pool, Entry(e))

add(pool, e) ==
    IF add_tombstone(e)
    THEN Append(Append(pool, Entry(e)), MultiByteEntryTombstone)
    ELSE Append(pool, Entry(e))

(***************************************************************************)
(* ConstantPool::get (c_pool.rs:76-96).  entries[i] is a bounds-checked     *)
(* index of a Vec: outside 0..len-1 it panics.  The Vec's 0-based slot i   *)
(* is element i + 1 of the sequence.                                       *)
(***************************************************************************)
IndexPanic == [ok |-> FALSE, panic |-> TRUE]

\* get with the tombstone error built from the 0-based i
get_zero_based(pool, input_index) ==
    IF input_index = 0 \/ input_index > Len(pool)
    THEN InvalidConstantPoolIndexError(input_index)
    ELSE LET i == input_index - 1 IN
         IF i + 1 \notin DOMAIN pool THEN IndexPanic
         ELSE LET entry == pool[i + 1] IN
              IF entry.phy = "Entry"
              THEN [ok |-> TRUE, entry |-> entry.entry]
              ELSE InvalidConstantPoolIndexError(i)

get(pool, input_index) ==
    IF input_index = 0 \/ input_index > Len(pool)
    THEN InvalidConstantPoolIndexError(input_index)
    ELSE LET i == input_index - 1 IN
         IF i + 1 \notin DOMAIN pool THEN IndexPanic
         ELSE LET entry == pool[i + 1] IN
              IF entry.phy = "Entry"
              THEN [ok |-> TRUE, entry |-> entry.entry]
              ELSE InvalidConstantPoolIndexError(input_index)

(***************************************************************************)
(* Results of the recursive renderers: Ok(text), Err(index), or the        *)
(* recursion never returning.  A call chain deeper than the number of      *)
(* slots has passed through some index twice, and as the renderers are     *)
(* pure functions of (pool, idx) it then recurses without end.             *)
(***************************************************************************)
TOk(text) == [st |-> "ok", text |-> text]
TErr(index) == [st |-> "err", index |-> index]
TDiverge == [st |-> "diverge"]
TPanic == [st |-> "panic"]

\* `self.get(idx)?`: the Err of get, passed on
GetFailed(g) == IF "panic" \in DOMAIN g THEN TPanic ELSE TErr(g.index)

\* i32/i64 to_string (c_pool.rs:160,162)
IntToString(n) == ToString(n)

\* f32/f64 to_string (c_pool.rs:161,163): shortest decimal, no trailing ".0"
FloatToString(x) == IF x.f = "" THEN ToString(x.w) ELSE ToString(x.w) \o "." \o x.f

(***************************************************************************)
(* ConstantPool::text_of (c_pool.rs:155-180)                               *)
(***************************************************************************)
RECURSIVE text_of_rec(_, _, _)

\* text_of with the name-and-type arm joined by "." like the arms above it
text_of_all_dots(pool, idx, depth) ==
    IF depth > Len(pool) THEN TDiverge
    ELSE
    LET g == get(pool, idx) IN
    IF ~g.ok THEN GetFailed(g)
    ELSE
    LET e == g.entry
        pair(sep) ==
            LET a == text_of_rec(pool, e.i, depth + 1) IN
            IF a.st # "ok" THEN a
            ELSE LET b == text_of_rec(pool, e.j, depth + 1) IN
                 IF b.st # "ok" THEN b
                 ELSE TOk(a.text \o sep \o b.text)
    IN  CASE e.tag = "String" -> TOk(e.s)
          [] e.tag = "Integer" -> TOk(IntToString(e.n))
          [] e.tag = "Float" -> TOk(FloatToString(e.x))
          [] e.tag = "Long" -> TOk(IntToString(e.n))
          [] e.tag = "Double" -> TOk(FloatToString(e.x))
          [] e.tag = "ClassReference" -> text_of_rec(pool, e.n, depth + 1)
          [] e.tag = "StringReference" -> text_of_rec(pool, e.n, depth + 1)
          [] e.tag = "FieldReference" -> pair(".")
          [] e.tag = "MethodReference" -> pair(".")
          [] e.tag = "InterfaceMethodReference" -> pair(".")
          [] e.tag = "NameAndTypeDescriptor" -> pair(".")

\* text_of that renders the right operand before the left one
text_of_right_first(pool, idx, depth) ==
    IF depth > Len(pool) THEN TDiverge
    ELSE
    LET g == get(pool, idx) IN
    IF ~g.ok THEN GetFailed(g)
    ELSE
    LET e == g.entry
        pair(sep) ==
            LET b == text_of_rec(pool, e.j, depth + 1) IN
            IF b.st # "ok" THEN b
            ELSE LET a == text_of_rec(pool, e.i, depth + 1) IN
                 IF a.st # "ok" THEN a
                 ELSE TOk(a.text \o sep \o b.text)
    IN  CASE e.tag = "String" -> TOk(e.s)
          [] e.tag = "Integer" -> TOk(IntToString(e.n))
          [] e.tag = "Float" -> TOk(FloatToString(e.x))
          [] e.tag = "Long" -> TOk(IntToString(e.n))
          [] e.tag = "Double" -> TOk(FloatToString(e.x))
          [] e.tag = "ClassReference" -> text_of_rec(pool, e.n, depth + 1)
          [] e.tag = "StringReference" -> text_of_rec(pool, e.n, depth + 1)
          [] e.tag = "FieldReference" -> pair(".")
          [] e.tag = "MethodReference" -> pair(".")
          [] e.tag = "InterfaceMethodReference" -> pair(".")
          [] e.tag = "NameAndTypeDescriptor" -> pair(": ")

text_of_rec(pool, idx, depth) ==
    IF depth > Len(pool) THEN TDiverge
    ELSE
    LET g == get(pool, idx) IN
    IF ~g.ok THEN GetFailed(g)
    ELSE
    LET e == g.entry
        pair(sep) ==
            LET a == text_of_rec(pool, e.i, depth + 1) IN
            IF a.st # "ok" THEN a
            ELSE LET b == text_of_rec(pool, e.j, depth + 1) IN
                 IF b.st # "ok" THEN b
                 ELSE TOk(a.text \o sep \o b.text)
    IN  CASE e.tag = "String" -> TOk(e.s)
          [] e.tag = "Integer" -> TOk(IntToString(e.n))
          [] e.tag = "Float" -> TOk(FloatToString(e.x))
          [] e.tag = "Long" -> TOk(IntToString(e.n))
          [] e.tag = "Double" -> TOk(FloatToString(e.x))
          [] e.tag = "ClassReference" -> text_of_rec(pool, e.n, depth + 1)
          [] e.tag = "StringReference" -> text_of_rec(pool, e.n, depth + 1)
          [] e.tag = "FieldReference" -> pair(".")
          [] e.tag = "MethodReference" -> pair(".")
          [] e.tag = "InterfaceMethodReference" -> pair(".")
          [] e.tag = "NameAndTypeDescriptor" -> pair(": ")

text_of(pool, idx) == text_of_rec(pool, idx, 0)

(***************************************************************************)
(* ConstantPool::fmt_entry (c_pool.rs:99-152)                              *)
(***************************************************************************)
RECURSIVE fmt_entry_rec(_, _, _)
fmt_entry_rec(pool, idx, depth) ==
    IF depth > Len(pool) THEN TDiverge
    ELSE
    LET g == get(pool, idx) IN
    IF ~g.ok THEN GetFailed(g)
    ELSE
    LET e == g.entry
        one(name) ==
            LET a == fmt_entry_rec(pool, e.n, depth + 1) IN
            IF a.st # "ok" THEN a
            ELSE TOk(name \o ": " \o ToString(e.n) \o " => (" \o a.text \o ")")
        two(name) ==
            LET a == fmt_entry_rec(pool, e.i, depth + 1) IN
            IF a.st # "ok" THEN a
            ELSE LET b == fmt_entry_rec(pool, e.j, depth + 1) IN
                 IF b.st # "ok" THEN b
                 ELSE TOk(name \o ": " \o ToString(e.i) \o ", " \o ToString(e.j)
                          \o " => (" \o a.text \o "), (" \o b.text \o ")")
    IN  CASE e.tag = "String" -> TOk("String: \"" \o e.s \o "\"")
          [] e.tag = "Integer" -> TOk("Integer: " \o IntToString(e.n))
          [] e.tag = "Float" -> TOk("Float: " \o FloatToString(e.x))
          [] e.tag = "Long" -> TOk("Long: " \o IntToString(e.n))
          [] e.tag = "Double" -> TOk("Double: " \o FloatToString(e.x))
          [] e.tag = "ClassReference" -> one("ClassReference")
          [] e.tag = "StringReference" -> one("StringReference")
          [] e.tag = "FieldReference" -> two("FieldReference")
          [] e.tag = "MethodReference" -> two("MethodReference")
          [] e.tag = "InterfaceMethodReference" -> two("InterfaceMethodReference")
          [] e.tag = "NameAndTypeDescriptor" -> two("NameAndTypeDescriptor")

fmt_entry(pool, idx) == fmt_entry_rec(pool, idx, 0)

(***************************************************************************)
(* impl fmt::Display for ConstantPool (c_pool.rs:184-196).  out is the     *)
(* text written to the formatter line by line; a failing fmt_entry is      *)
(* turned into fmt::Error by `?` (c_pool.rs:199-203) and ends the loop.    *)
(***************************************************************************)
RECURSIVE fmt_loop(_, _, _)
fmt_loop(pool, raw_idx, out) ==
    IF raw_idx >= Len(pool) THEN [st |-> "ok", out |-> out]
    ELSE LET index == (raw_idx + 1) % U16
             t == fmt_entry(pool, index)
         IN  IF t.st = "ok"
             THEN fmt_loop(pool, raw_idx + 1,
                           Append(out, "    " \o ToString(index) \o ", " \o t.text))
             ELSE IF t.st = "err"
             THEN [st |-> "fmt::Error", out |-> out]
             ELSE [st |-> t.st, out |-> out]

fmt(pool) ==
    fmt_loop(pool, 0, <<"Constant pool: (size: " \o ToString(Len(pool)) \o ")">>)

(***************************************************************************)
(* The pool of tests::constant_pool_works (c_pool.rs:217-228)              *)
(***************************************************************************)
TestEntries ==
    << String("hey"), Integer(1), Float(Dec(2, "1")), Long(123),
       Double(Dec(3, "56")), ClassReference(1), StringReference(1),
       String("joe"), FieldReference(1, 10), MethodReference(1, 10),
       InterfaceMethodReference(1, 10), NameAndTypeDescriptor(1, 10) >>

RECURSIVE add_all(_, _)
add_all(pool, es) ==
    IF es = <<>> THEN pool ELSE add_all(add(pool, Head(es)), Tail(es))

TestPool == add_all(<<>>, TestEntries)

(***************************************************************************)
(* Inputs of the explored add calls                                        *)
(***************************************************************************)
\* index operands of the explored reference entries: 0 is never valid; 1
\* and 2 are, as the pool has it, an entry, the entry itself, a tombstone
\* or past the end
Indices == {0, 1, 2}

Leaves ==
    { String("hey"), String("joe"), Integer(1), Float(Dec(2, "1")),
      Long(123), Double(Dec(3, "56")) }

Entries ==
    Leaves
    \cup { ClassReference(n) : n \in Indices }
    \cup { StringReference(n) : n \in Indices }
    \cup { FieldReference(p[1], p[2]) : p \in Indices \X Indices }
    \cup { MethodReference(p[1], p[2]) : p \in Indices \X Indices }
    \cup { InterfaceMethodReference(p[1], p[2]) : p \in Indices \X Indices }
    \cup { NameAndTypeDescriptor(p[1], p[2]) : p \in Indices \X Indices }

\* indices handed to get and text_of: every slot, 0, and one past the end
Args(pool) == 0..(Len(pool) + 1)

NoCall == [op |-> "none"]

\* no value is being returned between two frames of text_of
NoRv == [st |-> "none"]

(***************************************************************************)
(* Constant pool: state and operations                                     *)
(***************************************************************************)
PoolIdle ==
    /\ buffer = <<>>
    /\ position = 0
    /\ ret = [op |-> "none"]
    /\ version = [op |-> "none"]

\* ConstantPool::new (c_pool.rs:53-55), or the pool built by the unit test
InitPool ==
    /\ \/ entries = <<>> /\ added = <<>>
       \/ entries = TestPool /\ added = TestEntries
    /\ call = NoCall
    /\ stack = <<>>
    /\ rv = NoRv
    /\ PoolIdle

\* add takes &mut self: no text_of, which borrows the pool, is under way
Add(e) ==
    /\ Len(added) < MaxAdds
    /\ stack = <<>>
    /\ entries' = add(entries, e)
    /\ added' = Append(added, e)
    /\ call' = NoCall
    /\ UNCHANGED <<stack, rv, bufVars, version>>

\* The queries take &self and leave the pool as it is: a query made after
\* another query sees what the first saw, so each pool's queries are
\* explored from the state its last add left.
Get(i) ==
    /\ call = NoCall
    /\ call' = [op |-> "get", arg |-> i, got |-> get(entries, i)]
    /\ UNCHANGED <<entries, added, stack, rv, bufVars, version>>

TextOf(i) ==
    /\ call = NoCall
    /\ call' = [op |-> "text_of", arg |-> i, txt |-> text_of(entries, i)]
    /\ UNCHANGED <<entries, added, stack, rv, bufVars, version>>

Display ==
    /\ call = NoCall
    /\ call' = [op |-> "fmt", dump |-> fmt(entries)]
    /\ UNCHANGED <<entries, added, stack, rv, bufVars, version>>

NextPool ==
    \/ \E e \in Entries : Add(e)
    \/ \E i \in Args(entries) : Get(i)
    \/ \E i \in Args(entries) : TextOf(i)
    \/ Display

SpecPool == InitPool /\ [][NextPool]_vars

(***************************************************************************)
(* ConstantPool::text_of (c_pool.rs:155-180) run call by call: stack holds *)
(* one frame for each text_of under way, the innermost last.  A frame is   *)
(* at its entry ("enter"), waiting for the operand of a class or string    *)
(* reference ("one"), or for the left or the right operand of a two-index  *)
(* entry ("left", "right", a being the left operand's text).               *)
(***************************************************************************)
Frame(idx) == [idx |-> idx, pc |-> "enter", a |-> ""]

\* one step of text_of with the class-reference arm calling text_of(idx)
\* in the place of text_of(*n)
text_of_step_same_index(pool, stk, r) ==
    LET n == Len(stk)
        f == stk[n]
        below == SubSeq(stk, 1, n - 1)
        g == get(pool, f.idx)
    IN
    IF r = NoRv
    THEN \* let entry = self.get(idx)?; match entry { ... }
         IF ~g.ok THEN [stack |-> below, rv |-> GetFailed(g)]
         ELSE LET e == g.entry IN
              CASE e.tag = "String" -> [stack |-> below, rv |-> TOk(e.s)]
                [] e.tag = "Integer" -> [stack |-> below, rv |-> TOk(IntToString(e.n))]
                [] e.tag = "Float" -> [stack |-> below, rv |-> TOk(FloatToString(e.x))]
                [] e.tag = "Long" -> [stack |-> below, rv |-> TOk(IntToString(e.n))]
                [] e.tag = "Double" -> [stack |-> below, rv |-> TOk(FloatToString(e.x))]
                [] e.tag = "ClassReference" ->
                     [stack |-> below \o <<[f EXCEPT !.pc = "one"], Frame(f.idx)>>,
                      rv |-> NoRv]
                [] e.tag = "StringReference" ->
                     [stack |-> below \o <<[f EXCEPT !.pc = "one"], Frame(e.n)>>,
                      rv |-> NoRv]
                [] e.tag \in {"FieldReference", "MethodReference",
                              "InterfaceMethodReference", "NameAndTypeDescriptor"} ->
                     [stack |-> below \o <<[f EXCEPT !.pc = "left"], Frame(e.i)>>,
                      rv |-> NoRv]
    ELSE \* a nested self.text_of(..) has returned r to frame f
         IF f.pc = "one" THEN [stack |-> below, rv |-> r]
         ELSE IF r.st # "ok" THEN [stack |-> below, rv |-> r]
         ELSE IF f.pc = "left"
         THEN [stack |-> below \o <<[f EXCEPT !.pc = "right", !.a = r.text],
                                    Frame(g.entry.j)>>,
               rv |-> NoRv]
         ELSE [stack |-> below,
               rv |-> TOk(f.a \o (IF g.entry.tag = "NameAndTypeDescriptor"
                                  THEN ": " ELSE ".") \o r.text)]

\* one step of the innermost call: the stack and the value returned, if
\* any, after it
text_of_step(pool, stk, r) ==
    LET n == Len(stk)
        f == stk[n]
        below == SubSeq(stk, 1, n - 1)
        g == get(pool, f.idx)
    IN
    IF r = NoRv
    THEN \* let entry = self.get(idx)?; match entry { ... }
         IF ~g.ok THEN [stack |-> below, rv |-> GetFailed(g)]
         ELSE LET e == g.entry IN
              CASE e.tag = "String" -> [stack |-> below, rv |-> TOk(e.s)]
                [] e.tag = "Integer" -> [stack |-> below, rv |-> TOk(IntToString(e.n))]
                [] e.tag = "Float" -> [stack |-> below, rv |-> TOk(FloatToString(e.x))]
                [] e.tag = "Long" -> [stack |-> below, rv |-> TOk(IntToString(e.n))]
                [] e.tag = "Double" -> [stack |-> below, rv |-> TOk(FloatToString(e.x))]
                [] e.tag = "ClassReference" ->
                     [stack |-> below \o <<[f EXCEPT !.pc = "one"], Frame(e.n)>>,
                      rv |-> NoRv]
                [] e.tag = "StringReference" ->
                     [stack |-> below \o <<[f EXCEPT !.pc = "one"], Frame(e.n)>>,
                      rv |-> NoRv]
                [] e.tag \in {"FieldReference", "MethodReference",
                              "InterfaceMethodReference", "NameAndTypeDescriptor"} ->
                     [stack |-> below \o <<[f EXCEPT !.pc = "left"], Frame(e.i)>>,
                      rv |-> NoRv]
    ELSE \* a nested self.text_of(..) has returned r to frame f
         IF f.pc = "one" THEN [stack |-> below, rv |-> r]
         ELSE IF r.st # "ok" THEN [stack |-> below, rv |-> r]
         ELSE IF f.pc = "left"
         THEN [stack |-> below \o <<[f EXCEPT !.pc = "right", !.a = r.text],
                                    Frame(g.entry.j)>>,
               rv |-> NoRv]
         ELSE [stack |-> below,
               rv |-> TOk(f.a \o (IF g.entry.tag = "NameAndTypeDescriptor"
                                  THEN ": " ELSE ".") \o r.text)]

\* text_of(i) is called on the pool as it is
CallTextOf(i) ==
    /\ call = NoCall
    /\ stack = <<>>
    /\ stack' = <<Frame(i)>>
    /\ rv' = NoRv
    /\ call' = [op |-> "text_of_call", arg |-> i]
    /\ UNCHANGED <<entries, added, bufVars, version>>

\* The call under way runs on.  The recursion has no depth or visited-set
\* guard: more frames than the pool has slots, plus one, means an index is
\* on the stack twice, and the same calls then repeat until the thread's
\* stack is used up.
Step ==
    /\ stack # <<>>
    /\ IF Len(stack) > Len(entries) + 1
       THEN /\ stack' = <<>>
            /\ rv' = NoRv
            /\ call' = [op |-> "text_of", arg |-> call.arg, txt |-> TDiverge]
       ELSE LET s == text_of_step(entries, stack, rv) IN
            IF s.stack = <<>>
            THEN /\ stack' = <<>>
                 /\ rv' = NoRv
                 /\ call' = [op |-> "text_of", arg |-> call.arg, txt |-> s.rv]
            ELSE /\ stack' = s.stack
                 /\ rv' = s.rv
                 /\ call' = call
    /\ UNCHANGED <<entries, added, bufVars, version>>

NextEval ==
    \/ \E e \in Entries : Add(e)
    \/ \E i \in Args(entries) : CallTextOf(i)
    \/ Step

\* a call that has begun goes on running
SpecEval == InitPool /\ [][NextEval]_vars /\ WF_vars(Step)

(***************************************************************************)
(* Vocabulary of the claims about the pool                                 *)
(***************************************************************************)
WideTags == {"Long", "Double"}
UnaryTags == {"ClassReference", "StringReference"}
DotTags == {"FieldReference", "MethodReference", "InterfaceMethodReference"}
BinaryTags == DotTags \cup {"NameAndTypeDescriptor"}

\* slot i is the tombstone that follows a Long or Double entry
IsTombstoneAfterWide(i) ==
    /\ i \in 2..Len(entries)
    /\ entries[i].phy = "Tombstone"
    /\ entries[i - 1].phy = "Entry"
    /\ entries[i - 1].entry.tag \in WideTags

SlotsOf(e) == IF e.tag \in WideTags THEN 2 ELSE 1

RECURSIVE SumSlots(_, _)
SumSlots(es, n) == IF n = 0 THEN 0 ELSE SumSlots(es, n - 1) + SlotsOf(es[n])

\* C1: get(i) fails with the invalid-index error carrying exactly i when
\* i = 0, i is past the last slot, or slot i is the tombstone after a Long
\* or Double; for every other i it returns the entry of slot i, and it
\* never indexes outside the slot sequence.
C1_GetChecked ==
    call.op = "get" =>
        LET i == call.arg IN
        /\ "panic" \notin DOMAIN call.got
        /\ IF i = 0 \/ i > Len(entries) \/ IsTombstoneAfterWide(i)
           THEN call.got = [ok |-> FALSE, index |-> i]
           ELSE /\ call.got.ok
                /\ i \in DOMAIN entries
                /\ call.got = [ok |-> TRUE, entry |-> entries[i].entry]

C1_Witness ==
    /\ call.op = "get"
    /\ IsTombstoneAfterWide(call.arg)
    /\ call.got = [ok |-> FALSE, index |-> call.arg]

\* C2: a Long or Double takes two slots and any other entry one: after
\* adding e1..en, get(1 + sum of slots(ej), j < k) returns ek for every k,
\* and the pool size is the sum of slots(ej) over all j.
C2_SlotArithmetic ==
    /\ Len(entries) = SumSlots(added, Len(added))
    /\ \A k \in 1..Len(added) :
          get(entries, 1 + SumSlots(added, k - 1)) = [ok |-> TRUE, entry |-> added[k]]

C2_Witness ==
    /\ Len(added) = 2
    /\ added[1].tag \in WideTags
    /\ call.op = "get"
    /\ call.arg = 3
    /\ call.got = [ok |-> TRUE, entry |-> added[2]]

\* slot k holds an entry (not a tombstone, not 0, not past the end)
Valid(pool, k) == k \in 1..Len(pool) /\ pool[k].phy = "Entry"

\* the indices an entry refers to, left to right
Operands(e) ==
    IF e.tag \in UnaryTags THEN <<e.n>>
    ELSE IF e.tag \in BinaryTags THEN <<e.i, e.j>>
    ELSE <<>>

Refs(pool, k) == IF Valid(pool, k) THEN Operands(pool[k].entry) ELSE <<>>

Range(f) == { f[x] : x \in DOMAIN f }

\* every index reached from the indices of S by following reference entries
RECURSIVE ReachFrom(_, _)
ReachFrom(pool, S) ==
    LET T == S \cup UNION { Range(Refs(pool, k)) : k \in S }
    IN  IF T = S THEN S ELSE ReachFrom(pool, T)

Reach(pool, i) == ReachFrom(pool, {i})

AllReachedValid(pool, i) == \A k \in Reach(pool, i) : Valid(pool, k)

\* k lies on a reference cycle: following references from k leads back to k
OnCycle(pool, k) == \E m \in Range(Refs(pool, k)) : k \in Reach(pool, m)

ReachesCycle(pool, i) == \E k \in Reach(pool, i) : OnCycle(pool, k)

Acyclic(pool) == \A k \in 1..Len(pool) : ~OnCycle(pool, k)

\* the indices met from i in left-to-right depth-first order, cut below the
\* depth at which an index must have repeated
RECURSIVE Preorder(_, _, _)
Preorder(pool, i, depth) ==
    IF depth > Len(pool) THEN <<>>
    ELSE LET r == Refs(pool, i) IN
         <<i>> \o (IF Len(r) >= 1 THEN Preorder(pool, r[1], depth + 1) ELSE <<>>)
               \o (IF Len(r) >= 2 THEN Preorder(pool, r[2], depth + 1) ELSE <<>>)

FirstInvalid(pool, i) ==
    LET o == Preorder(pool, i, 0)
        bad == { n \in DOMAIN o : ~Valid(pool, o[n]) }
    IN  IF bad = {} THEN -1 ELSE o[CHOOSE n \in bad : \A m \in bad : n <= m]

\* the literal renderings of the numeric leaves of the explored pools
LeafLiteral(e) ==
    CASE e = Integer(1) -> "1"
      [] e = Long(123) -> "123"
      [] e = Float(Dec(2, "1")) -> "2.1"
      [] e = Double(Dec(3, "56")) -> "3.56"
      [] e.tag = "String" -> e.s

\* C7: text_of follows the concatenation rule wherever the referenced
\* entries render: a field, method or interface-method reference (c, nt) is
\* text_of(c) + "." + text_of(nt), a name-and-type (n, d) is text_of(n) +
\* ": " + text_of(d), a class or string reference (n) is text_of(n), a leaf
\* is its literal value; in the unit test's pool index 11 is "hey.joe".
C7_ConcatenationRule ==
    /\ (call.op = "text_of" /\ Valid(entries, call.arg)) =>
          LET e == entries[call.arg].entry
              r == Refs(entries, call.arg)
              a == text_of(entries, r[1])
              b == text_of(entries, r[2])
          IN  CASE e.tag \in DotTags ->
                     (a.st = "ok" /\ b.st = "ok") => call.txt = TOk(a.text \o "." \o b.text)
                [] e.tag = "NameAndTypeDescriptor" ->
                     (a.st = "ok" /\ b.st = "ok") => call.txt = TOk(a.text \o ": " \o b.text)
                [] e.tag \in UnaryTags ->
                     a.st = "ok" => call.txt = a
                [] OTHER -> call.txt = TOk(LeafLiteral(e))
    /\ (call.op = "text_of" /\ entries = TestPool) =>
          /\ call.arg \in {11, 12, 13} => call.txt = TOk("hey.joe")
          /\ call.arg = 14 => call.txt = TOk("hey: joe")
          /\ call.arg \in {1, 8, 9} => call.txt = TOk("hey")

C7_Witness ==
    /\ call.op = "text_of"
    /\ entries = TestPool
    /\ call.arg = 11
    /\ entries[11].entry = FieldReference(1, 10)
    /\ call.txt = TOk("hey.joe")

\* C8 as claimed: the dump of a pool built by add, all of whose entries
\* render, completes and has one line for each of the slots 1..size.
C8_DumpCompletes ==
    (/\ call.op = "fmt"
     /\ \A k \in 1..Len(entries) :
           Valid(entries, k) => text_of(entries, k).st = "ok")
    => /\ call.dump.st = "ok"
       /\ Len(call.dump.out) = 1 + Len(entries)

MaxBufLen == 8

\* bytes of the explored buffers: an ASCII byte and a byte with the top bit
\* set that no UTF-8 or CESU-8 encoding contains
ByteVals == {66, 255}

RECURSIVE SeqsOf(_, _)
SeqsOf(S, n) ==
    IF n = 0 THEN {<<>>}
    ELSE LET shorter == SeqsOf(S, n - 1)
         IN  shorter \cup { Append(q, b) : q \in { r \in shorter : Len(r) = n - 1 }, b \in S }

\* the buffer of tests::buffer_works (buffer.rs:86)
TestData == <<0, 0, 0, 66>>

Buffers == SeqsOf(ByteVals, MaxBufLen) \cup {TestData}

\* ClassReaderError::InvalidClassData (class_reader_error.rs:10-11)
InvalidClassData(msg) == [kind |-> "InvalidClassData", msg |-> msg]

\* advance that, short of bytes, consumes the bytes that are left
advance_partial(buf, pos, size) ==
    IF pos + size > Len(buf)
    THEN [ok |-> FALSE, position |-> Len(buf),
          err |-> InvalidClassData("class does not have expected length")]
    ELSE [ok |-> TRUE, position |-> pos + size,
          slice |-> SubSeq(buf, pos + 1, pos + size)]

\* advance that moves the cursor before it checks the length
advance_then_check(buf, pos, size) ==
    IF pos + size > Len(buf)
    THEN [ok |-> FALSE, position |-> pos + size,
          err |-> InvalidClassData("class does not have expected length")]
    ELSE [ok |-> TRUE, position |-> pos + size,
          slice |-> SubSeq(buf, pos + 1, pos + size)]

\* BufferReader::advance (buffer.rs:17-27): the outcome and the new
\* self.position.  position + size stays far below the width of usize for
\* the sizes the readers pass (1..8, and read_utf8's len).
advance(buf, pos, size) ==
    IF pos + size > Len(buf)
    THEN [ok |-> FALSE, position |-> pos,
          err |-> InvalidClassData("class does not have expected length")]
    ELSE [ok |-> TRUE, position |-> pos + size,
          slice |-> SubSeq(buf, pos + 1, pos + size)]

\* A w-byte value is kept as its bit pattern in base-65536 digits, most
\* significant first (one digit below 256 for a single byte): the values of
\* u32, i64 and f64 do not fit the integers of the checker.
Limb == 256 * 256

\* from_le_bytes in the place of from_be_bytes
from_le_bytes(bytes) ==
    IF Len(bytes) = 1 THEN <<bytes[1]>>
    ELSE [k \in 1..(Len(bytes) \div 2) |->
             bytes[Len(bytes) - 2 * k + 2] * 256 + bytes[Len(bytes) - 2 * k + 1]]

\* {u8,u16,u32,i32,i64,f32,f64}::from_be_bytes (buffer.rs:29-62)
from_be_bytes(bytes) ==
    IF Len(bytes) = 1 THEN <<bytes[1]>>
    ELSE [k \in 1..(Len(bytes) \div 2) |-> bytes[2 * k - 1] * 256 + bytes[2 * k]]

\* cesu8::from_java_cesu8 on the explored bytes: a byte below 0x80 is the
\* character of that code, 0xF8..0xFF begin or continue no sequence
from_java_cesu8(bytes) ==
    IF \A k \in DOMAIN bytes : bytes[k] < 128
    THEN [ok |-> TRUE, chars |-> bytes]
    ELSE [ok |-> FALSE]

\* BufferReader::has_more_data (buffer.rs:75-77)
has_more_data == position < Len(buffer)

NoRead == [op |-> "none"]

BufIdle ==
    /\ entries = <<>>
    /\ added = <<>>
    /\ call = NoCall
    /\ stack = <<>>
    /\ rv = NoRv
    /\ version = [op |-> "none"]

\* BufferReader::new (buffer.rs:10-15)
InitBuf ==
    /\ buffer \in Buffers
    /\ position = 0
    /\ ret = NoRead
    /\ BufIdle

\* self.advance(size_of::<T>()).map(|bytes| T::from_be_bytes(bytes)): the
\* new self.position and what the read returns
read_fixed(op, ty, w) ==
    LET a == advance(buffer, position, w) IN
    [position |-> a.position,
     ret |-> IF a.ok
             THEN [op |-> op, at |-> position, size |-> w, ok |-> TRUE,
                   val |-> [ty |-> ty, bits |-> from_be_bytes(a.slice)]]
             ELSE [op |-> op, at |-> position, size |-> w, ok |-> FALSE, err |-> a.err]]

\* BufferReader::read_u8 (buffer.rs:29-32)
ReadU8 ==
    LET r == read_fixed("read_u8", "u8", 1) IN
    /\ position' = r.position
    /\ ret' = r.ret
    /\ UNCHANGED <<buffer, poolVars, version>>

\* BufferReader::read_u16 (buffer.rs:34-37)
ReadU16 ==
    LET r == read_fixed("read_u16", "u16", 2) IN
    /\ position' = r.position
    /\ ret' = r.ret
    /\ UNCHANGED <<buffer, poolVars, version>>

\* BufferReader::read_u32 (buffer.rs:39-42)
ReadU32 ==
    LET r == read_fixed("read_u32", "u32", 4) IN
    /\ position' = r.position
    /\ ret' = r.ret
    /\ UNCHANGED <<buffer, poolVars, version>>

\* BufferReader::read_i32 (buffer.rs:44-47)
ReadI32 ==
    LET r == read_fixed("read_i32", "i32", 4) IN
    /\ position' = r.position
    /\ ret' = r.ret
    /\ UNCHANGED <<buffer, poolVars, version>>

\* BufferReader::read_i64 (buffer.rs:49-52)
ReadI64 ==
    LET r == read_fixed("read_i64", "i64", 8) IN
    /\ position' = r.position
    /\ ret' = r.ret
    /\ UNCHANGED <<buffer, poolVars, version>>

\* BufferReader::read_f32 (buffer.rs:54-57)
ReadF32 ==
    LET r == read_fixed("read_f32", "f32", 4) IN
    /\ position' = r.position
    /\ ret' = r.ret
    /\ UNCHANGED <<buffer, poolVars, version>>

\* BufferReader::read_f64 (buffer.rs:59-62)
ReadF64 ==
    LET r == read_fixed("read_f64", "f64", 8) IN
    /\ position' = r.position
    /\ ret' = r.ret
    /\ UNCHANGED <<buffer, poolVars, version>>

\* read_utf8 that puts the cursor back when the bytes do not decode
ReadUtf8_rollback(len) ==
    LET a == advance(buffer, position, len)
        d == from_java_cesu8(a.slice)
    IN
    /\ position' = IF a.ok /\ ~d.ok THEN position ELSE a.position
    /\ ret' = IF ~a.ok
              THEN [op |-> "read_utf8", at |-> position, size |-> len, ok |-> FALSE,
                    err |-> a.err]
              ELSE IF d.ok
                   THEN [op |-> "read_utf8", at |-> position, size |-> len, ok |-> TRUE,
                         str |-> d.chars]
                   ELSE [op |-> "read_utf8", at |-> position, size |-> len, ok |-> FALSE,
                         err |-> InvalidClassData("invalid utf8 data")]
    /\ UNCHANGED <<buffer, poolVars, version>>

\* BufferReader::read_utf8 (buffer.rs:64-72)
ReadUtf8(len) ==
    LET a == advance(buffer, position, len) IN
    /\ position' = a.position
    /\ ret' = IF ~a.ok
              THEN [op |-> "read_utf8", at |-> position, size |-> len, ok |-> FALSE,
                    err |-> a.err]
              ELSE LET d == from_java_cesu8(a.slice) IN
                   IF d.ok
                   THEN [op |-> "read_utf8", at |-> position, size |-> len, ok |-> TRUE,
                         str |-> d.chars]
                   ELSE [op |-> "read_utf8", at |-> position, size |-> len, ok |-> FALSE,
                         err |-> InvalidClassData("invalid utf8 data")]
    /\ UNCHANGED <<buffer, poolVars, version>>

NextBuf ==
    \/ ReadU8
    \/ ReadU16
    \/ ReadU32
    \/ ReadI32
    \/ ReadI64
    \/ ReadF32
    \/ ReadF64
    \/ \E len \in 0..(Len(buffer) - position + 1) : ReadUtf8(len)

SpecBuf == InitBuf /\ [][NextBuf]_vars

(***************************************************************************)
(* Version decoder (class_file_version.rs)                                 *)
(***************************************************************************)
\* largest major of the explored range 0..MaxMajor
MaxMajor == 62

Majors == 0..MaxMajor \cup {9999, 65535}
Minors == {0, 3, 45, 65535}

\* ClassReaderError::UnsupportedVersion as from builds it
\* (class_file_version.rs:27)
UnsupportedVersion(major, minor) ==
    [kind |-> "UnsupportedVersion", major |-> major, minor |-> minor]

\* from with the two numbers of the error exchanged
from_swapped(major, minor) ==
    CASE major = 45 -> [ok |-> TRUE, release |-> "Jdk1_1"]
      [] major = 46 -> [ok |-> TRUE, release |-> "Jdk1_2"]
      [] major = 47 -> [ok |-> TRUE, release |-> "Jdk1_3"]
      [] major = 48 -> [ok |-> TRUE, release |-> "Jdk1_4"]
      [] major = 49 -> [ok |-> TRUE, release |-> "Jdk1_5"]
      [] major = 50 -> [ok |-> TRUE, release |-> "Jdk6"]
      [] major = 51 -> [ok |-> TRUE, release |-> "Jdk7"]
      [] OTHER -> [ok |-> FALSE, err |-> UnsupportedVersion(minor, major)]

\* ClassFileVersion::from (class_file_version.rs:18-29)
from(major, minor) ==
    CASE major = 45 -> [ok |-> TRUE, release |-> "Jdk1_1"]
      [] major = 46 -> [ok |-> TRUE, release |-> "Jdk1_2"]
      [] major = 47 -> [ok |-> TRUE, release |-> "Jdk1_3"]
      [] major = 48 -> [ok |-> TRUE, release |-> "Jdk1_4"]
      [] major = 49 -> [ok |-> TRUE, release |-> "Jdk1_5"]
      [] major = 50 -> [ok |-> TRUE, release |-> "Jdk6"]
      [] major = 51 -> [ok |-> TRUE, release |-> "Jdk7"]
      [] OTHER -> [ok |-> FALSE, err |-> UnsupportedVersion(major, minor)]

InitVersion ==
    /\ version = [op |-> "none"]
    /\ entries = <<>>
    /\ added = <<>>
    /\ call = NoCall
    /\ stack = <<>>
    /\ rv = NoRv
    /\ buffer = <<>>
    /\ position = 0
    /\ ret = NoRead

From(major, minor) ==
    /\ version' = [op |-> "from", major |-> major, minor |-> minor,
                   res |-> from(major, minor)]
    /\ UNCHANGED <<poolVars, bufVars>>

NextVersion == \E major \in Majors, minor \in Minors : From(major, minor)

SpecVersion == InitVersion /\ [][NextVersion]_vars

(***************************************************************************)
(* Claims about the cursor reader                                          *)
(***************************************************************************)
FixedOps ==
    {"read_u8", "read_u16", "read_u32", "read_i32", "read_i64", "read_f32", "read_f64"}

WidthOf(op) ==
    CASE op = "read_u8" -> 1
      [] op = "read_u16" -> 2
      [] op \in {"read_u32", "read_i32", "read_f32"} -> 4
      [] op \in {"read_i64", "read_f64"} -> 8

Truncation == InvalidClassData("class does not have expected length")

\* C3: a read whose size exceeds the bytes remaining fails with
\* InvalidClassData and leaves the offset where it was, and a fixed-width
\* read that fits, made right after such a failure, succeeds from that
\* same offset.
C3_TruncatedReadKeepsOffset ==
    [][ /\ (ret'.op # "none" /\ ret'.size > Len(buffer) - position) =>
              /\ ~ret'.ok
              /\ ret'.err.kind = "InvalidClassData"
              /\ ret'.at = position
              /\ position' = position
              /\ buffer' = buffer
        /\ (/\ ret.op # "none"
            /\ ~ret.ok
            /\ ret.err = Truncation
            /\ ret'.op \in FixedOps
            /\ WidthOf(ret'.op) <= Len(buffer) - position) =>
              /\ ret'.ok
              /\ ret'.at = ret.at
              /\ position' = ret.at + WidthOf(ret'.op)
      ]_vars

\* a read of more than the bytes left has failed, after an earlier read
\* moved the offset, and a byte is still left for a smaller read
C3_Witness ==
    /\ ret.op # "none"
    /\ ret.size > Len(buffer) - ret.at
    /\ ~ret.ok
    /\ ret.err = Truncation
    /\ position = ret.at
    /\ position > 0
    /\ position < Len(buffer)

\* C4: from a new cursor at offset 0, after any sequence of reads, the
\* offset is between 0 and the buffer length and never decreases.
C4_OffsetInRangeMonotone ==
    /\ [](position \in 0..Len(buffer))
    /\ [][position' >= position]_vars

\* the offset has reached the end of a non-empty buffer and a read there
\* has failed
C4_Witness ==
    /\ Len(buffer) > 0
    /\ position = Len(buffer)
    /\ ret.op # "none"
    /\ ~ret.ok
    /\ ret.at = position

\* the big-endian value of the w bytes after offset at, in base-65536 digits
BigEndianAt(at, w) ==
    CASE w = 1 -> <<buffer[at + 1]>>
      [] w = 2 -> <<buffer[at + 1] * 256 + buffer[at + 2]>>
      [] w = 4 -> <<buffer[at + 1] * 256 + buffer[at + 2],
                    buffer[at + 3] * 256 + buffer[at + 4]>>
      [] w = 8 -> <<buffer[at + 1] * 256 + buffer[at + 2],
                    buffer[at + 3] * 256 + buffer[at + 4],
                    buffer[at + 5] * 256 + buffer[at + 6],
                    buffer[at + 7] * 256 + buffer[at + 8]>>

\* the number a two-digit pattern below 2^31 stands for
NumberOf(bits) == bits[1] * Limb + bits[2]

\* C5: a fixed-width read of width w with at least w bytes remaining
\* returns the big-endian value of the next w bytes and advances the
\* offset by w; read_u32 on [0,0,0,0x42] yields 66 and leaves no more
\* data, and a read_u32 on the exhausted cursor returns an error.
C5_FixedWidthBigEndian ==
    /\ (ret.op \in FixedOps /\ WidthOf(ret.op) <= Len(buffer) - ret.at) =>
          /\ ret.ok
          /\ ret.size = WidthOf(ret.op)
          /\ ret.val.bits = BigEndianAt(ret.at, WidthOf(ret.op))
          /\ position = ret.at + WidthOf(ret.op)
    /\ (buffer = TestData /\ ret.op = "read_u32" /\ ret.at = 0) =>
          /\ ret.ok
          /\ NumberOf(ret.val.bits) = 66
          /\ ~has_more_data
    /\ (buffer = TestData /\ ret.op = "read_u32" /\ ret.at = 4) => ~ret.ok

C5_Witness ==
    /\ buffer = TestData
    /\ ret.op = "read_u32"
    /\ ret.at = 0
    /\ ret.ok
    /\ ret.val = [ty |-> "u32", bits |-> <<0, 66>>]
    /\ position = 4

\* the bytes after offset at, size of them, hold a byte that no modified
\* UTF-8 sequence contains
HasUndecodableByte(at, size) == \E k \in (at + 1)..(at + size) : buffer[k] >= 248

InvalidUtf8 == InvalidClassData("invalid utf8 data")

\* C11: read_utf8(len) with at least len bytes remaining consumes exactly
\* len bytes whether or not they decode: bytes that are not valid modified
\* UTF-8 give InvalidClassData with the offset already past those len
\* bytes, while a truncation failure leaves the offset where it was.
C11_Utf8ConsumesLen ==
    ret.op = "read_utf8" =>
        IF ret.size <= Len(buffer) - ret.at
        THEN /\ position = ret.at + ret.size
             /\ ret.ok <=> ~HasUndecodableByte(ret.at, ret.size)
             /\ ret.ok => ret.str = SubSeq(buffer, ret.at + 1, ret.at + ret.size)
             /\ ~ret.ok => ret.err = InvalidUtf8
        ELSE /\ position = ret.at
             /\ ~ret.ok
             /\ ret.err = Truncation

\* bytes that do not decode were read: the read failed and the offset is
\* past them
C11_Witness ==
    /\ ret.op = "read_utf8"
    /\ ret.size >= 2
    /\ ret.size <= Len(buffer) - ret.at
    /\ HasUndecodableByte(ret.at, ret.size)
    /\ ~ret.ok
    /\ ret.err = InvalidUtf8
    /\ position = ret.at + ret.size

(***************************************************************************)
(* Claims about the version decoder                                        *)
(***************************************************************************)
ReleaseOf(major) ==
    CASE major = 45 -> "Jdk1_1"
      [] major = 46 -> "Jdk1_2"
      [] major = 47 -> "Jdk1_3"
      [] major = 48 -> "Jdk1_4"
      [] major = 49 -> "Jdk1_5"
      [] major = 50 -> "Jdk6"
      [] major = 51 -> "Jdk7"

EvalAgrees == call.op = "text_of" => call.txt = text_of(entries, call.arg)

\* the entry at index n is a class reference to n itself
SelfClassReference(n) == Valid(entries, n) /\ entries[n].entry = ClassReference(n)

Returned == call.op = "text_of" /\ call.txt.st \in {"ok", "err"}

\* C10: text_of(i) returns, a text or an invalid-index error, for every
\* index from which no reference cycle is reached, so for every index of a
\* pool without cycles; where it runs without end a cycle is reached, and
\* on a class reference that refers to itself it always runs without end.
C10_Terminates ==
    /\ (call.op = "text_of_call" /\ ~ReachesCycle(entries, call.arg)) ~> Returned
    /\ []((call.op = "text_of" /\ call.txt.st = "diverge") =>
             ReachesCycle(entries, call.arg))
    /\ []((call.op = "text_of" /\ SelfClassReference(call.arg)) =>
             call.txt.st = "diverge")

\* text_of has returned a text for a reference entry of a pool without
\* cycles, after a nested call
C10_Witness ==
    /\ call.op = "text_of"
    /\ Acyclic(entries)
    /\ Valid(entries, call.arg)
    /\ entries[call.arg].entry.tag \in BinaryTags
    /\ call.txt.st = "ok"

====
